---- MODULE Spec2Model ----
(***************************************************************************)
(* A model of components/script/dom/attr.rs: the attribute value variants, *)
(* the attribute with its value cell, the set_value protocol with the      *)
(* owner's before_remove_attr / after_set_attr hooks, and the accessors    *)
(* the layout task uses without taking a borrow.                           *)
(*                                                                         *)
(* A text (DOMString, &str) is a sequence of one-character strings.        *)
(***************************************************************************)
EXTENDS Integers, Sequences, FiniteSets, TLC

VARIABLES
    attr,      \* the Attr: local_name, value (the cell's content), name, namespace, prefix, owner
    borrow,    \* the DOMRefCell's borrow state: -1 mutably borrowed, n >= 0 outstanding Ref guards
    stack,     \* the script task's active calls on the attribute, innermost last
    trace,     \* the events of the script task's latest outermost call, in order
    ret,       \* the call that has just returned (None once the script task moves on)
    panicked,  \* the script task has failed
    phase,     \* the host's phase: "script" (may mutate) or "layout" (may read)
    hostBarrier, \* whether the host separates the two phases
    views,     \* what the layout task holds from the *_forever accessors
    seen,      \* what the layout task last read in this layout phase (None before)
    last,      \* the value of the last assignment to the cell, and of the last call to return
    arg,       \* value model: the text and default handed to a constructor
    built,     \* value model: the constructor applied and the value it built (None before)
    got        \* what the script task's latest read returned (None once it moves on)

vars == <<attr, borrow, stack, trace, ret, panicked, phase, hostBarrier, views, seen, last, arg, built, got>>

None == [none |-> TRUE]

----------------------------------------------------------------------------
(* Bounds *)

\* the longest text handed to the value constructors
MaxLen == 3
\* the calls of set_value within one outermost call (the outermost included)
MaxCalls == 2
\* the Ref guards outstanding at once
MaxGuards == 1
\* the views the layout task holds at once
MaxViews == 1

----------------------------------------------------------------------------
(* Texts *)

\* servo_util::str::HTML_SPACE_CHARACTERS
HTML_SPACE_CHARACTERS == {" ", "\t", "\n", "\f", "\r"}

Digits == <<"0", "1", "2", "3", "4", "5", "6", "7", "8", "9">>

\* the characters the enumerated texts are made of
Chars == {"a", "b", "c", " ", "\n", "0", "7"}

Texts == UNION {[1..n -> Chars] : n \in 0..MaxLen}

txt_class    == <<"c", "l", "a", "s", "s">>
txt_id       == <<"i", "d">>
txt_tabindex == <<"t", "a", "b", "i", "n", "d", "e", "x">>
txt_href     == <<"h", "r", "e", "f">>
txt_xlink_href == <<"x", "l", "i", "n", "k", ":", "h", "r", "e", "f">>
txt_xlink    == <<"x", "l", "i", "n", "k">>
txt_ns_xlink == <<"h", "t", "t", "p", ":", "/", "/", "w", "3", "/", "x", "l", "i", "n", "k">>
txt_empty    == <<>>

----------------------------------------------------------------------------
(* Option<T> *)

Some(x) == [some |-> x]

unwrap_or(o, default) == IF o = None THEN default ELSE o.some

----------------------------------------------------------------------------
(* string_cache::Atom: an interned string.  A well-known string is its      *)
(* index in the static table; any other (short) string is packed into the  *)
(* handle itself.                                                          *)

StaticAtoms ==
    <<txt_empty, txt_class, txt_id, txt_tabindex, txt_href, txt_xlink_href, txt_ns_xlink>>

PackAlphabet == <<"a", "b", "c", " ", "\n", "0", "7">>

CharCode(ch) == CHOOSE i \in 1..Len(PackAlphabet) : PackAlphabet[i] = ch

RECURSIVE Pack(_)
Pack(s) ==
    IF s = <<>> THEN 0
    ELSE Pack(SubSeq(s, 1, Len(s) - 1)) * Len(PackAlphabet) + CharCode(s[Len(s)])

RECURSIVE Unpack(_)
Unpack(n) ==
    IF n = 0 THEN <<>>
    ELSE Append(Unpack((n - 1) \div Len(PackAlphabet)),
                PackAlphabet[((n - 1) % Len(PackAlphabet)) + 1])

\* Atom::from_slice
AtomFromSlice(s) ==
    IF \E i \in 1..Len(StaticAtoms) : StaticAtoms[i] = s
    THEN [static |-> CHOOSE i \in 1..Len(StaticAtoms) : StaticAtoms[i] = s]
    ELSE [inline |-> Pack(s)]

\* Atom::as_slice
AtomAsSlice(a) ==
    IF "static" \in DOMAIN a THEN StaticAtoms[a.static] ELSE Unpack(a.inline)

----------------------------------------------------------------------------
(* servo_util::str::split_html_space_chars:                                *)
(*   s.split(HTML_SPACE_CHARACTERS).filter(|&split| !split.is_empty())     *)

RECURSIVE SplitFrom(_, _, _)
SplitFrom(s, i, cur) ==
    IF i > Len(s) THEN <<cur>>
    ELSE IF s[i] \in HTML_SPACE_CHARACTERS
         THEN <<cur>> \o SplitFrom(s, i + 1, <<>>)
         ELSE SplitFrom(s, i + 1, Append(cur, s[i]))

NonEmpty(piece) == piece # <<>>

split_html_space_chars(s) == SelectSeq(SplitFrom(s, 1, <<>>), NonEmpty)

----------------------------------------------------------------------------
(* from_str::<u32>: base 10, digits only, checked against 2^32 - 1.  A u32 *)
(* is kept as two 16-bit limbs, value = hi * 2^16 + lo.                    *)

LimbBase == 65536

U32(n) == [hi |-> n \div LimbBase, lo |-> n % LimbBase]

IsDigit(ch) == \E i \in 1..Len(Digits) : Digits[i] = ch

DigitValue(ch) == (CHOOSE i \in 1..Len(Digits) : Digits[i] = ch) - 1

\* acc.checked_mul(10) and then checked_add(d)
CheckedMulAdd(acc, d) ==
    LET lo1 == acc.lo * 10 + d
        hi1 == acc.hi * 10 + (lo1 \div LimbBase)
    IN  IF hi1 >= LimbBase THEN None ELSE Some([hi |-> hi1, lo |-> lo1 % LimbBase])

RECURSIVE ParseDigits(_, _, _)
ParseDigits(s, i, acc) ==
    IF i > Len(s) THEN Some(acc)
    ELSE IF ~IsDigit(s[i]) THEN None
    ELSE LET next == CheckedMulAdd(acc, DigitValue(s[i]))
         IN  IF next = None THEN None ELSE ParseDigits(s, i + 1, next.some)

from_str_u32(s) == IF s = <<>> THEN None ELSE ParseDigits(s, 1, U32(0))

----------------------------------------------------------------------------
(* AttrValue *)

StringAttrValue(s) == [tag |-> "StringAttrValue", str |-> s]

TokenListAttrValue(s, atoms) == [tag |-> "TokenListAttrValue", str |-> s, tokens |-> atoms]

UIntAttrValue(s, n) == [tag |-> "UIntAttrValue", str |-> s, num |-> n]

AtomAttrValue(a) == [tag |-> "AtomAttrValue", atom |-> a]

RECURSIVE JoinWithSpace(_)
JoinWithSpace(pieces) ==
    IF pieces = <<>> THEN <<>>
    ELSE IF Len(pieces) = 1 THEN pieces[1]
    ELSE pieces[1] \o <<" ">> \o JoinWithSpace(Tail(pieces))

\* faulty variant of from_tokenlist: the text rebuilt from the tokens
from_tokenlist_normalized(tokens_) ==
    LET split == split_html_space_chars(tokens_)
        atoms == [k \in 1..Len(split) |-> AtomFromSlice(split[k])]
    IN  TokenListAttrValue(JoinWithSpace(split), atoms)

IsFirstOccurrence(split, k) == \A j \in 1..(k - 1) : split[j] # split[k]

RECURSIVE Dedup(_, _)
Dedup(split, k) ==
    IF k > Len(split) THEN <<>>
    ELSE IF IsFirstOccurrence(split, k) THEN <<split[k]>> \o Dedup(split, k + 1)
    ELSE Dedup(split, k + 1)

\* faulty variant of from_tokenlist: repeated tokens dropped
from_tokenlist_dedup(tokens_) ==
    LET split == Dedup(split_html_space_chars(tokens_), 1)
        atoms == [k \in 1..Len(split) |-> AtomFromSlice(split[k])]
    IN  TokenListAttrValue(tokens_, atoms)

from_tokenlist(tokens_) ==
    LET split == split_html_space_chars(tokens_)
        atoms == [k \in 1..Len(split) |-> AtomFromSlice(split[k])]
    IN  TokenListAttrValue(tokens_, atoms)

\* faulty variant of from_u32: 0 instead of the caller's default
from_u32_zero_on_failure(string, default) ==
    LET result == unwrap_or(from_str_u32(string), U32(0))
    IN  UIntAttrValue(string, result)

from_u32(string, default) ==
    LET result == unwrap_or(from_str_u32(string), default)
    IN  UIntAttrValue(string, result)

from_atomic(string) ==
    LET value == AtomFromSlice(string)
    IN  AtomAttrValue(value)

\* faulty variant of tokens: an empty token list reads as no list
tokens_none_when_empty(self) ==
    IF self.tag = "TokenListAttrValue" /\ self.tokens # <<>> THEN Some(self.tokens) ELSE None

tokens(self) ==
    IF self.tag = "TokenListAttrValue" THEN Some(self.tokens) ELSE None

as_slice(self) ==
    IF self.tag \in {"StringAttrValue", "TokenListAttrValue", "UIntAttrValue"}
    THEN self.str
    ELSE AtomAsSlice(self.atom)


----------------------------------------------------------------------------
(* Attr *)

Namespace(atom) == [ns |-> atom]

\* ns!("")
ns_empty == Namespace(AtomFromSlice(txt_empty))

\* Attr::new_inherited
new_inherited(local_name, value, name, namespace, prefix, owner) ==
    [local_name |-> local_name,
     value      |-> value,
     name       |-> name,
     namespace  |-> namespace,
     prefix     |-> prefix,
     owner      |-> owner]

\* Element::parse_attribute: the owner routes an attribute to its variant by
\* namespace and local name
parse_attribute(namespace, local_name, value) ==
    IF namespace # ns_empty THEN StringAttrValue(value)
    ELSE IF local_name = AtomFromSlice(txt_class) THEN from_tokenlist(value)
    ELSE IF local_name = AtomFromSlice(txt_id) THEN from_atomic(value)
    ELSE IF local_name = AtomFromSlice(txt_tabindex) THEN from_u32(value, U32(0))
    ELSE StringAttrValue(value)

txt_a__b == <<"a", " ", " ", "b">>
txt_b_c  == <<"b", " ", "c">>
txt_7    == <<"7">>

\* the attributes an element is given: class, id, tabindex, xlink:href
Identities ==
    {[local_name |-> AtomFromSlice(txt_class), name |-> AtomFromSlice(txt_class),
      namespace |-> ns_empty, prefix |-> None],
     [local_name |-> AtomFromSlice(txt_id), name |-> AtomFromSlice(txt_id),
      namespace |-> ns_empty, prefix |-> None],
     [local_name |-> AtomFromSlice(txt_tabindex), name |-> AtomFromSlice(txt_tabindex),
      namespace |-> ns_empty, prefix |-> None],
     [local_name |-> AtomFromSlice(txt_href), name |-> AtomFromSlice(txt_xlink_href),
      namespace |-> Namespace(AtomFromSlice(txt_ns_xlink)), prefix |-> Some(txt_xlink)]}

\* the text an attribute is created with
InitTexts == {txt_a__b}

\* the texts later written to it
SetTexts == {txt_b_c, txt_7}

\* the values handed to set_value by callers inside the engine
ArgValues == {from_tokenlist(txt_b_c), from_atomic(txt_7), from_u32(txt_7, U32(0))}

SetTypes == {"FirstSetAttr", "ReplacedAttr"}


----------------------------------------------------------------------------
(* The script task: set_value and its callers *)

Top == stack[Len(stack)]

SetTop(f) == [stack EXCEPT ![Len(stack)] = f]

InHook(f) == f.pc \in {"before_remove_attr", "after_set_attr"}

\* the script task is running code outside set_value: a caller's, or a hook's
UserCode == IF stack = <<>> THEN TRUE ELSE InHook(Top)

\* the host lets the script task run
ScriptMayRun == ~panicked /\ (hostBarrier => phase = "script")

\* the host lets the layout task run
LayoutMayRun == hostBarrier => phase = "layout"

Event(ev, val) == [ev |-> ev, d |-> Len(stack), val |-> val]

CallsMade == Cardinality({i \in 1..Len(trace) : trace[i].ev = "call"})

NewFrame(entry, set_type, value, text, pc) ==
    [entry     |-> entry,
     set_type  |-> set_type,
     value     |-> value,
     text      |-> text,
     pc        |-> pc,
     events    |-> <<>>,
     old       |-> as_slice(attr.value),
     sawBefore |-> None,
     sawAfter  |-> None,
     nested    |-> [before_remove_attr |-> 0, after_set_attr |-> 0]]

\* faulty variant of namespace_is_null: the comparison inverted
namespace_is_null_inverted(self) == self.namespace # ns_empty

\* line 188
namespace_is_null(self) == self.namespace = ns_empty

\* faulty variant of calls_before_remove_attr: the kind of set ignored
calls_before_remove_attr_any_type(set_type, is_null) == is_null

\* line 191: the guard of the match arm that calls before_remove_attr
calls_before_remove_attr(set_type, is_null) == set_type = "ReplacedAttr" /\ is_null

\* line 197
calls_after_set_attr(is_null) == is_null

\* faulty variant of SetValue_set_type: the wrong kind passed on
SetValue_set_type_first == "FirstSetAttr"

\* line 141: the kind SetValue passes on
SetValue_set_type == "ReplacedAttr"

\* faulty variant of try_borrow_mut: the borrow state not looked at
try_borrow_mut_unchecked(b) == TRUE

\* DOMRefCell::borrow_mut succeeds only on a cell that is not borrowed
try_borrow_mut(b) == b = 0

\* faulty variant of assigned: the new value not stored
assigned_keeps_old(old, value) == old

\* faulty variant of assigned: only the text of a value of the same variant is replaced
assigned_text_only(old, value) ==
    IF old.tag = value.tag /\ old.tag \in {"TokenListAttrValue", "UIntAttrValue"}
    THEN [old EXCEPT !.str = value.str]
    ELSE value

\* line 195: the cell's content after `*self.value.borrow_mut() = value`
assigned(old, value) == value

\* faulty variant of borrow_after_assign: the RefMut kept past the statement
borrow_after_assign_kept(b) == b

\* line 195: the borrow state once the statement's RefMut temporary is dropped
borrow_after_assign(b) == 0

\* a caller inside the engine calls attr.set_value(set_type, value)
set_value(set_type, value) ==
    /\ ScriptMayRun
    /\ stack = <<>>
    /\ stack' = <<NewFrame("set_value", set_type, value, None, "l191")>>
    /\ trace' = <<[ev |-> "call", d |-> 1, val |-> None]>>
    /\ ret' = None
    /\ UNCHANGED <<attr, borrow, panicked, phase, hostBarrier, views, seen, last, arg, built>>
    /\ got' = None

\* a hook of the owner calls attr.set_value(set_type, value) on the same attribute
reentrant_set_value(set_type, value) ==
    /\ ScriptMayRun
    /\ stack # <<>>
    /\ InHook(Top)
    /\ CallsMade < MaxCalls
    /\ stack' = Append(SetTop([Top EXCEPT !.nested[Top.pc] = @ + 1]),
                       NewFrame("set_value", set_type, value, None, "l191"))
    /\ trace' = Append(trace, [ev |-> "call", d |-> Len(stack) + 1, val |-> None])
    /\ ret' = None
    /\ UNCHANGED <<attr, borrow, panicked, phase, hostBarrier, views, seen, last, arg, built>>
    /\ got' = None

\* script calls attr.value = text (SetValue) or attr.textContent = text
\* (SetTextContent, which calls SetValue)
SetValue(entry, text) ==
    /\ ScriptMayRun
    /\ stack = <<>>
    /\ stack' = <<NewFrame(entry, None, None, text, "l140")>>
    /\ trace' = <<[ev |-> "call", d |-> 1, val |-> None]>>
    /\ ret' = None
    /\ UNCHANGED <<attr, borrow, panicked, phase, hostBarrier, views, seen, last, arg, built>>
    /\ got' = None

\* lines 139-141: the owner parses the text, then set_value(ReplacedAttr, value)
SetValue_140 ==
    /\ ScriptMayRun
    /\ stack # <<>>
    /\ Top.pc = "l140"
    /\ stack' = SetTop([Top EXCEPT
            !.value = parse_attribute(attr.namespace, attr.local_name, Top.text),
            !.set_type = SetValue_set_type,
            !.events = Append(@, "parse_attribute"),
            !.pc = "l191"])
    /\ trace' = Append(trace, Event("parse_attribute", Top.text))
    /\ ret' = None
    /\ UNCHANGED <<attr, borrow, panicked, phase, hostBarrier, views, seen, last, arg, built>>
    /\ got' = None

\* faulty variant of set_value_191: the value stored before before_remove_attr is called
set_value_191_after_assign ==
    /\ ScriptMayRun
    /\ stack # <<>>
    /\ Top.pc = "l191"
    /\ attr' = [attr EXCEPT !.value = Top.value]
    /\ IF calls_before_remove_attr(Top.set_type, namespace_is_null(attr))
       THEN /\ stack' = SetTop([Top EXCEPT
                    !.events = Append(@, "before_remove_attr"),
                    !.sawBefore = Some(as_slice(Top.value)),
                    !.pc = "before_remove_attr"])
            /\ trace' = Append(trace, Event("before_remove_attr", as_slice(Top.value)))
       ELSE /\ stack' = SetTop([Top EXCEPT !.pc = "l195"])
            /\ trace' = trace
    /\ ret' = None
    /\ UNCHANGED <<borrow, panicked, phase, hostBarrier, views, seen, last, arg, built>>
    /\ got' = None

\* lines 188-193: before_remove_attr is called, or not
set_value_191 ==
    /\ ScriptMayRun
    /\ stack # <<>>
    /\ Top.pc = "l191"
    /\ IF calls_before_remove_attr(Top.set_type, namespace_is_null(attr))
       THEN /\ stack' = SetTop([Top EXCEPT
                    !.events = Append(@, "before_remove_attr"),
                    !.sawBefore = Some(as_slice(attr.value)),
                    !.pc = "before_remove_attr"])
            /\ trace' = Append(trace, Event("before_remove_attr", as_slice(attr.value)))
       ELSE /\ stack' = SetTop([Top EXCEPT !.pc = "l195"])
            /\ trace' = trace
    /\ ret' = None
    /\ UNCHANGED <<attr, borrow, panicked, phase, hostBarrier, views, seen, last, arg, built>>
    /\ got' = None

\* faulty variant of before_remove_attr_return: the assignment is skipped
before_remove_attr_return_skips_assignment ==
    /\ ScriptMayRun
    /\ stack # <<>>
    /\ Top.pc = "before_remove_attr"
    /\ stack' = SetTop([Top EXCEPT !.pc = "l197"])
    /\ ret' = None
    /\ UNCHANGED <<attr, borrow, trace, panicked, phase, hostBarrier, views, seen, last, arg, built>>
    /\ got' = None

\* the owner's before_remove_attr returns
before_remove_attr_return ==
    /\ ScriptMayRun
    /\ stack # <<>>
    /\ Top.pc = "before_remove_attr"
    /\ stack' = SetTop([Top EXCEPT !.pc = "l195"])
    /\ ret' = None
    /\ UNCHANGED <<attr, borrow, trace, panicked, phase, hostBarrier, views, seen, last, arg, built>>
    /\ got' = None

\* line 195, self.value.borrow_mut(): fails when the cell is borrowed
set_value_195_borrow_mut ==
    /\ ScriptMayRun
    /\ stack # <<>>
    /\ Top.pc = "l195"
    /\ IF try_borrow_mut(borrow)
       THEN /\ borrow' = -1
            /\ stack' = SetTop([Top EXCEPT !.pc = "l195_assign"])
            /\ panicked' = panicked
       ELSE /\ panicked' = TRUE
            /\ UNCHANGED <<borrow, stack>>
    /\ ret' = None
    /\ UNCHANGED <<attr, trace, phase, hostBarrier, views, seen, last, arg, built>>
    /\ got' = None

\* faulty variant of set_value_195_assign: the prefix is cleared with the value
set_value_195_assign_clears_prefix ==
    /\ ScriptMayRun
    /\ stack # <<>>
    /\ Top.pc = "l195_assign"
    /\ attr' = [attr EXCEPT !.value = assigned(attr.value, Top.value), !.prefix = None]
    /\ borrow' = borrow_after_assign(borrow)
    /\ views' = {[v EXCEPT !.dangling = TRUE] : v \in views}
    /\ last' = [last EXCEPT !.swapped = Top.value]
    /\ stack' = SetTop([Top EXCEPT !.events = Append(@, "swap"), !.pc = "l197"])
    /\ trace' = Append(trace, Event("swap", as_slice(Top.value)))
    /\ ret' = None
    /\ UNCHANGED <<panicked, phase, hostBarrier, seen, arg, built>>
    /\ got' = None

\* line 195, `* ... = value`: the old value is dropped, the new one stored, and
\* the RefMut released at the end of the statement
set_value_195_assign ==
    /\ ScriptMayRun
    /\ stack # <<>>
    /\ Top.pc = "l195_assign"
    /\ attr' = [attr EXCEPT !.value = assigned(attr.value, Top.value)]
    /\ borrow' = borrow_after_assign(borrow)
    /\ views' = {[v EXCEPT !.dangling = TRUE] : v \in views}
    /\ last' = [last EXCEPT !.swapped = Top.value]
    /\ stack' = SetTop([Top EXCEPT !.events = Append(@, "swap"), !.pc = "l197"])
    /\ trace' = Append(trace, Event("swap", as_slice(Top.value)))
    /\ ret' = None
    /\ UNCHANGED <<panicked, phase, hostBarrier, seen, arg, built>>
    /\ got' = None

\* a call returns to its caller
Return(f) ==
    /\ stack' = SubSeq(stack, 1, Len(stack) - 1)
    /\ trace' = Append(trace, Event("return", None))
    /\ ret' = f
    /\ last' = [last EXCEPT !.completed = f.value]

\* lines 197-200: after_set_attr is called, or set_value returns
set_value_197 ==
    /\ ScriptMayRun
    /\ stack # <<>>
    /\ Top.pc = "l197"
    /\ IF calls_after_set_attr(namespace_is_null(attr))
       THEN /\ stack' = SetTop([Top EXCEPT
                    !.events = Append(@, "after_set_attr"),
                    !.sawAfter = Some(as_slice(attr.value)),
                    !.pc = "after_set_attr"])
            /\ trace' = Append(trace, Event("after_set_attr", as_slice(attr.value)))
            /\ ret' = None
            /\ last' = last
       ELSE Return(Top)
    /\ UNCHANGED <<attr, borrow, panicked, phase, hostBarrier, views, seen, arg, built>>
    /\ got' = None

\* the owner's after_set_attr returns, and set_value with it
after_set_attr_return ==
    /\ ScriptMayRun
    /\ stack # <<>>
    /\ Top.pc = "after_set_attr"
    /\ Return(Top)
    /\ UNCHANGED <<attr, borrow, panicked, phase, hostBarrier, views, seen, arg, built>>
    /\ got' = None

\* line 203, self.value.borrow(): the caller takes a Ref guard on the cell
value ==
    /\ ScriptMayRun
    /\ UserCode
    /\ borrow >= 0
    /\ borrow < MaxGuards
    /\ borrow' = borrow + 1
    /\ UNCHANGED <<attr, stack, trace, ret, panicked, phase, hostBarrier, views, seen, last, arg, built>>
    /\ got' = None

\* the caller drops a Ref guard
drop_Ref ==
    /\ ScriptMayRun
    /\ UserCode
    /\ borrow > 0
    /\ borrow' = borrow - 1
    /\ UNCHANGED <<attr, stack, trace, ret, panicked, phase, hostBarrier, views, seen, last, arg, built>>
    /\ got' = None


----------------------------------------------------------------------------
(* The script task's reads: AttrMethods and the accessors of Attr.  None   *)
(* of them takes the cell beyond the call, and none calls the owner.       *)

Got(op, res) == [op |-> op, res |-> res]

\* lines 130-132
LocalName(self) == AtomAsSlice(self.local_name)

\* lines 134-136: reads the text through a Ref guard dropped on return
Value(self) == as_slice(self.value)

\* lines 144-146
TextContent(self) == Value(self)

\* lines 152-154
Name(self) == AtomAsSlice(self.name)

\* faulty variant of GetNamespaceURI: the empty namespace is returned as a text
GetNamespaceURI_some_empty(self) == Some(AtomAsSlice(self.namespace.ns))

\* lines 156-162
GetNamespaceURI(self) ==
    LET url == AtomAsSlice(self.namespace.ns)
    IN  IF url = txt_empty THEN None ELSE Some(url)

\* lines 164-166
GetPrefix(self) == self.prefix

\* lines 168-170
GetOwnerElement(self) == Some(self.owner)

\* lines 172-174
Specified(self) == TRUE

\* lines 206-208
local_name(self) == self.local_name

\* lines 113-115
name(self) == self.name

\* lines 118-120
namespace(self) == self.namespace

\* lines 123-125
prefix(self) == self.prefix

\* lines 210-217
summarize(self) ==
    [namespace |-> AtomAsSlice(self.namespace.ns), name |-> Name(self), value |-> Value(self)]

\* a read that does not touch the cell
Read(op, res) ==
    /\ ScriptMayRun
    /\ UserCode
    /\ got' = Got(op, res)
    /\ UNCHANGED <<attr, borrow, stack, trace, ret, panicked, phase, hostBarrier, views, seen, last, arg, built>>

\* a read that borrows the cell for the length of the call (line 203)
ReadCell(op, res) ==
    /\ ScriptMayRun
    /\ UserCode
    /\ IF borrow >= 0
       THEN got' = Got(op, res) /\ panicked' = panicked
       ELSE got' = None /\ panicked' = TRUE
    /\ UNCHANGED <<attr, borrow, stack, trace, ret, phase, hostBarrier, views, seen, last, arg, built>>

read_LocalName == Read("LocalName", LocalName(attr))

read_Value == ReadCell("Value", Value(attr))

read_TextContent == ReadCell("TextContent", TextContent(attr))

read_Name == Read("Name", Name(attr))

read_GetNamespaceURI == Read("GetNamespaceURI", GetNamespaceURI(attr))

read_GetPrefix == Read("GetPrefix", GetPrefix(attr))

read_GetOwnerElement == Read("GetOwnerElement", GetOwnerElement(attr))

read_Specified == Read("Specified", Specified(attr))

read_local_name == Read("local_name", local_name(attr))

read_name == Read("name", name(attr))

read_namespace == Read("namespace", namespace(attr))

read_prefix == Read("prefix", prefix(attr))

read_summarize == ReadCell("summarize", summarize(attr))

----------------------------------------------------------------------------
(* The layout task: AttrHelpersForLayout.  borrow_for_layout hands out a   *)
(* reference into the cell without looking at its borrow state, and the    *)
(* transmute lets the reference outlive the call.                          *)

\* what a read through a reference into a dropped or half-written value may give
Garbage == [garbage |-> TRUE]

View(acc, target) == [acc |-> acc, target |-> target, dangling |-> FALSE]

Observation(acc, res) == [acc |-> acc, res |-> res]

\* faulty variant of value_ref_forever: the view is taken under a Ref guard
value_ref_forever_guarded ==
    /\ LayoutMayRun
    /\ Cardinality(views) < MaxViews
    /\ borrow >= 0
    /\ borrow' = borrow + 1
    /\ views' = views \cup {View("value_ref_forever", as_slice(attr.value))}
    /\ UNCHANGED <<attr, stack, trace, ret, panicked, phase, hostBarrier, seen, last, arg, built, got>>

\* lines 229-233: a &'static str into the cell's value
value_ref_forever ==
    /\ LayoutMayRun
    /\ Cardinality(views) < MaxViews
    /\ views' = views \cup {View("value_ref_forever", as_slice(attr.value))}
    /\ UNCHANGED <<attr, borrow, stack, trace, ret, panicked, phase, hostBarrier, seen, last, arg, built, got>>

\* lines 245-252: a &'static [Atom] into the cell's value, or None
value_tokens_forever ==
    /\ LayoutMayRun
    /\ Cardinality(views) < MaxViews
    /\ IF attr.value.tag = "TokenListAttrValue"
       THEN /\ views' = views \cup {View("value_tokens_forever", attr.value.tokens)}
            /\ seen' = seen
       ELSE /\ seen' = Observation("value_tokens_forever", None)
            /\ views' = views
    /\ UNCHANGED <<attr, borrow, stack, trace, ret, panicked, phase, hostBarrier, last, arg, built, got>>

\* faulty variant of value_atom_forever: an atom made of the text of any variant
value_atom_forever_of_any_variant ==
    /\ LayoutMayRun
    /\ seen' = Observation("value_atom_forever", Some(AtomFromSlice(as_slice(attr.value))))
    /\ UNCHANGED <<attr, borrow, stack, trace, ret, panicked, phase, hostBarrier, views, last, arg, built, got>>

\* lines 236-242: a clone of the atom, or None
value_atom_forever ==
    /\ LayoutMayRun
    /\ seen' = Observation("value_atom_forever",
                           IF attr.value.tag = "AtomAttrValue"
                           THEN Some(attr.value.atom) ELSE None)
    /\ UNCHANGED <<attr, borrow, stack, trace, ret, panicked, phase, hostBarrier, views, last, arg, built, got>>

\* lines 255-257: a clone of the local name
local_name_atom_forever ==
    /\ LayoutMayRun
    /\ seen' = Observation("local_name_atom_forever", attr.local_name)
    /\ UNCHANGED <<attr, borrow, stack, trace, ret, panicked, phase, hostBarrier, views, last, arg, built, got>>

\* what the cell holds now, seen the way the view looks at it
Projection(acc, v) ==
    IF acc = "value_ref_forever" THEN Some(as_slice(v))
    ELSE IF v.tag = "TokenListAttrValue" THEN Some(v.tokens) ELSE Garbage

\* the layout task reads through a view it holds.  Reading through a
\* reference whose value was dropped, or while the value is being written,
\* is undefined: the old content, the new content or garbage.
read_view(v) ==
    /\ LayoutMayRun
    /\ v \in views
    /\ \E res \in (IF v.dangling \/ borrow = -1
                   THEN {Some(v.target), Projection(v.acc, attr.value), Garbage}
                   ELSE {Some(v.target)}) :
            seen' = Observation(v.acc, res)
    /\ UNCHANGED <<attr, borrow, stack, trace, ret, panicked, phase, hostBarrier, views, last, arg, built, got>>

\* the layout task lets go of a view
drop_view(v) ==
    /\ LayoutMayRun
    /\ v \in views
    /\ views' = views \ {v}
    /\ UNCHANGED <<attr, borrow, stack, trace, ret, panicked, phase, hostBarrier, seen, last, arg, built, got>>

----------------------------------------------------------------------------
(* The host: with the barrier, layout reads only while the script task is  *)
(* parked outside set_value, and script resumes once layout holds nothing. *)

begin_layout ==
    /\ hostBarrier
    /\ phase = "script"
    /\ stack = <<>>
    /\ phase' = "layout"
    /\ trace' = <<>>
    /\ ret' = None
    /\ UNCHANGED <<attr, borrow, stack, panicked, hostBarrier, views, seen, last, arg, built>>
    /\ got' = None

end_layout ==
    /\ hostBarrier
    /\ phase = "layout"
    /\ views = {}
    /\ phase' = "script"
    /\ seen' = None
    /\ UNCHANGED <<attr, borrow, stack, trace, ret, panicked, hostBarrier, views, last, arg, built, got>>

----------------------------------------------------------------------------
(* The attribute's life *)

Owner == "element"

NewAttr(id, text) ==
    new_inherited(id.local_name, parse_attribute(id.namespace, id.local_name, text),
                  id.name, id.namespace, id.prefix, Owner)

Init ==
    /\ attr \in {NewAttr(id, t) : id \in Identities, t \in InitTexts}
    /\ borrow = 0
    /\ stack = <<>>
    /\ trace = <<>>
    /\ ret = None
    /\ panicked = FALSE
    /\ phase = "script"
    /\ hostBarrier = TRUE
    /\ views = {}
    /\ seen = None
    /\ last = [swapped |-> attr.value, completed |-> attr.value]
    /\ arg = None
    /\ built = None
    /\ got = None

Next ==
    \/ \E set_type \in SetTypes, v \in ArgValues : set_value(set_type, v)
    \/ \E set_type \in SetTypes, v \in ArgValues : reentrant_set_value(set_type, v)
    \/ \E entry \in {"SetValue", "SetTextContent"}, t \in SetTexts : SetValue(entry, t)
    \/ SetValue_140
    \/ set_value_191
    \/ before_remove_attr_return
    \/ set_value_195_borrow_mut
    \/ set_value_195_assign
    \/ set_value_197
    \/ after_set_attr_return
    \/ value
    \/ drop_Ref
    \/ value_ref_forever
    \/ value_tokens_forever
    \/ value_atom_forever
    \/ local_name_atom_forever
    \/ \E v \in views : read_view(v)
    \/ \E v \in views : drop_view(v)
    \/ begin_layout
    \/ end_layout

Spec == Init /\ [][Next]_vars

\* the two tasks without reentrant calls, the script task with its reads
\* between and inside its calls
ReadNext ==
    \/ \E set_type \in SetTypes, v \in ArgValues : set_value(set_type, v)
    \/ \E entry \in {"SetValue", "SetTextContent"}, t \in SetTexts : SetValue(entry, t)
    \/ SetValue_140
    \/ set_value_191
    \/ before_remove_attr_return
    \/ set_value_195_borrow_mut
    \/ set_value_195_assign
    \/ set_value_197
    \/ after_set_attr_return
    \/ value
    \/ drop_Ref
    \/ read_LocalName
    \/ read_Value
    \/ read_TextContent
    \/ read_Name
    \/ read_GetNamespaceURI
    \/ read_GetPrefix
    \/ read_GetOwnerElement
    \/ read_Specified
    \/ read_local_name
    \/ read_name
    \/ read_namespace
    \/ read_prefix
    \/ read_summarize
    \/ value_ref_forever
    \/ value_tokens_forever
    \/ value_atom_forever
    \/ local_name_atom_forever
    \/ \E v \in views : read_view(v)
    \/ \E v \in views : drop_view(v)
    \/ begin_layout
    \/ end_layout

ReadSpec == Init /\ [][ReadNext]_vars

\* a host that does not separate the phases: the layout task reads whenever
\* it likes, the script task writes whenever it likes
RaceInit ==
    /\ attr \in {NewAttr(id, t) : id \in Identities, t \in InitTexts}
    /\ borrow = 0
    /\ stack = <<>>
    /\ trace = <<>>
    /\ ret = None
    /\ panicked = FALSE
    /\ phase = "script"
    /\ hostBarrier = FALSE
    /\ views = {}
    /\ seen = None
    /\ last = [swapped |-> attr.value, completed |-> attr.value]
    /\ arg = None
    /\ built = None
    /\ got = None

RaceNext ==
    \/ \E set_type \in SetTypes, v \in ArgValues : set_value(set_type, v)
    \/ set_value_191
    \/ before_remove_attr_return
    \/ set_value_195_borrow_mut
    \/ set_value_195_assign
    \/ set_value_197
    \/ after_set_attr_return
    \/ value
    \/ drop_Ref
    \/ value_ref_forever
    \/ value_tokens_forever
    \/ value_atom_forever
    \/ local_name_atom_forever
    \/ \E v \in views : read_view(v)
    \/ \E v \in views : drop_view(v)

RaceSpec == RaceInit /\ [][RaceNext]_vars

----------------------------------------------------------------------------
(* The value model on its own: a constructor is applied to a text, and the *)
(* value it built is read.                                                 *)

Defaults == {U32(0), U32(5)}

Built(ctor, val) == [ctor |-> ctor, val |-> val, text |-> None, toks |-> None]

build_StringAttrValue ==
    /\ built' = Built("StringAttrValue", StringAttrValue(arg.text))
    /\ UNCHANGED <<attr, borrow, stack, trace, ret, panicked, phase, hostBarrier, views, seen, last, arg, got>>

build_from_tokenlist ==
    /\ built' = Built("from_tokenlist", from_tokenlist(arg.text))
    /\ UNCHANGED <<attr, borrow, stack, trace, ret, panicked, phase, hostBarrier, views, seen, last, arg, got>>

build_from_u32 ==
    /\ built' = Built("from_u32", from_u32(arg.text, arg.default))
    /\ UNCHANGED <<attr, borrow, stack, trace, ret, panicked, phase, hostBarrier, views, seen, last, arg, got>>

build_from_atomic ==
    /\ built' = Built("from_atomic", from_atomic(arg.text))
    /\ UNCHANGED <<attr, borrow, stack, trace, ret, panicked, phase, hostBarrier, views, seen, last, arg, got>>

read_as_slice ==
    /\ built # None
    /\ built' = [built EXCEPT !.text = Some(as_slice(built.val))]
    /\ UNCHANGED <<attr, borrow, stack, trace, ret, panicked, phase, hostBarrier, views, seen, last, arg, got>>

read_tokens ==
    /\ built # None
    /\ built' = [built EXCEPT !.toks = Some(tokens(built.val))]
    /\ UNCHANGED <<attr, borrow, stack, trace, ret, panicked, phase, hostBarrier, views, seen, last, arg, got>>

ValueInit ==
    /\ attr = NewAttr(CHOOSE id \in Identities : id.local_name = AtomFromSlice(txt_class), txt_a__b)
    /\ borrow = 0
    /\ stack = <<>>
    /\ trace = <<>>
    /\ ret = None
    /\ panicked = FALSE
    /\ phase = "script"
    /\ hostBarrier = TRUE
    /\ views = {}
    /\ seen = None
    /\ last = [swapped |-> attr.value, completed |-> attr.value]
    /\ arg \in [text : Texts, default : Defaults]
    /\ built = None
    /\ got = None

ValueNext ==
    \/ build_StringAttrValue
    \/ build_from_tokenlist
    \/ build_from_u32
    \/ build_from_atomic
    \/ read_as_slice
    \/ read_tokens

ValueSpec == ValueInit /\ [][ValueNext]_vars


----------------------------------------------------------------------------
(* from_u32 on its own, on the enumerated texts and on texts around the    *)
(* limits of a u32.                                                        *)

LongTexts ==
    {<<"4", "2", "9", "4", "9", "6", "7", "2", "9", "5">>,
     <<"4", "2", "9", "4", "9", "6", "7", "2", "9", "6">>,
     <<"2", "1", "4", "7", "4", "8", "3", "6", "4", "8">>,
     <<"6", "5", "5", "3", "6">>,
     <<"0", "0", "0", "0", "0", "0", "0", "0", "0", "7">>,
     <<"9", "9", "9", "9", "9", "9", "9", "9", "9", "9", "9">>,
     <<"-", "7">>,
     <<"7", " ">>}

UIntInit ==
    /\ attr = NewAttr(CHOOSE id \in Identities : id.local_name = AtomFromSlice(txt_tabindex), txt_7)
    /\ borrow = 0
    /\ stack = <<>>
    /\ trace = <<>>
    /\ ret = None
    /\ panicked = FALSE
    /\ phase = "script"
    /\ hostBarrier = TRUE
    /\ views = {}
    /\ seen = None
    /\ last = [swapped |-> attr.value, completed |-> attr.value]
    /\ arg \in [text : Texts \cup LongTexts, default : Defaults]
    /\ built = None
    /\ got = None

UIntNext ==
    \/ build_from_u32
    \/ read_as_slice
    \/ read_tokens

UIntSpec == UIntInit /\ [][UIntNext]_vars

----------------------------------------------------------------------------
(* Properties of the set_value protocol *)

IsPrefix(a, b) == Len(a) <= Len(b) /\ a = SubSeq(b, 1, Len(a))

IsProtocolEvent(e) == e # "parse_attribute"

\* what a call's own set_value did, in order
ProtocolEvents(f) == SelectSeq(f.events, IsProtocolEvent)

IsHookEvent(e) == e.ev \in {"before_remove_attr", "after_set_attr"}

\* the hook calls of the latest outermost call, in order, with the text each saw
HookCalls == SelectSeq(trace, IsHookEvent)

NullNamespace == attr.namespace = Namespace(AtomFromSlice(txt_empty))

Frames == {stack[i] : i \in 1..Len(stack)}

C1_Expected(set_type) ==
    IF set_type = "ReplacedAttr"
    THEN <<"before_remove_attr", "swap", "after_set_attr">>
    ELSE <<"swap", "after_set_attr">>

\* C1: on a null-namespace attribute a set_value(ReplacedAttr, v) that returns
\* has called before_remove_attr once, then replaced the cell, then called
\* after_set_attr once; a set_value(FirstSetAttr, v) that returns has replaced
\* the cell and then called after_set_attr once, and before_remove_attr never.
\* A call still running has done a prefix of that sequence.
C1_HooksOnceInOrder ==
    NullNamespace =>
        /\ \A f \in Frames :
              f.pc # "l140" => IsPrefix(ProtocolEvents(f), C1_Expected(f.set_type))
        /\ ret # None => ProtocolEvents(ret) = C1_Expected(ret.set_type)

C1_Witness ==
    /\ NullNamespace
    /\ stack = <<>>
    /\ ret # None
    /\ ret.entry = "set_value"
    /\ ret.set_type = "ReplacedAttr"
    /\ ret.nested = [before_remove_attr |-> 0, after_set_attr |-> 0]

\* C2: on an attribute in a namespace, no set_value of either kind calls
\* before_remove_attr or after_set_attr, and each call that returns has
\* replaced the cell by its value.
C2_NoHooksInNamespace ==
    ~NullNamespace =>
        /\ HookCalls = <<>>
        /\ \A f \in Frames : IsPrefix(ProtocolEvents(f), <<"swap">>)
        /\ ret # None => ProtocolEvents(ret) = <<"swap">> /\ attr.value = ret.value

C2_Witness ==
    /\ ~NullNamespace
    /\ ret # None
    /\ ret.entry = "set_value"
    /\ ret.set_type = "ReplacedAttr"
    /\ attr.value.tag = "TokenListAttrValue"

\* C3 as stated: whenever a set_value(kind, v) has returned, whatever the
\* hooks did, the text read from the cell is the text of v.
C3_TextIsNewValue ==
    ret # None => as_slice(attr.value) = as_slice(ret.value)

\* C3 as amended: when a set_value(kind, v) has returned and its
\* after_set_attr hook did not itself call set_value on the attribute, the
\* text read from the cell is the text of v.
C3_TextIsNewValueUnlessAfterHookSets ==
    (ret # None /\ ret.nested.after_set_attr = 0) =>
        as_slice(attr.value) = as_slice(ret.value)

\* the outer call's before_remove_attr wrote the attribute itself, and the
\* outer call has returned
C3_Witness ==
    /\ ret # None
    /\ stack = <<>>
    /\ ret.nested.before_remove_attr = 1
    /\ ret.nested.after_set_attr = 0
    /\ as_slice(ret.value) # ret.old

C4_Scenario ==
    /\ attr.local_name = AtomFromSlice(txt_class)
    /\ NullNamespace
    /\ stack = <<>>
    /\ ret # None
    /\ ret.set_type = "ReplacedAttr"
    /\ ret.old = txt_a__b
    /\ ret.value.tag = "TokenListAttrValue"
    /\ as_slice(ret.value) = txt_b_c
    /\ ret.nested = [before_remove_attr |-> 0, after_set_attr |-> 0]

\* C4: when before_remove_attr is called the attribute still reads as the
\* text it had when set_value was called, and when after_set_attr is called
\* it reads as the text of the new value.  Replacing "a  b" by "b c" on class
\* gives before_remove_attr("a  b"), after_set_attr("b c"), and the tokens
\* are then b, c.
C4_HooksSeeOldThenNew ==
    /\ \A f \in Frames \cup (IF ret = None THEN {} ELSE {ret}) :
          /\ f.sawBefore # None => f.sawBefore.some = f.old
          /\ f.sawAfter # None => f.sawAfter.some = as_slice(f.value)
    /\ C4_Scenario =>
          /\ [i \in 1..Len(HookCalls) |-> <<HookCalls[i].ev, HookCalls[i].val>>]
                = << <<"before_remove_attr", txt_a__b>>, <<"after_set_attr", txt_b_c>> >>
          /\ tokens(attr.value) # None
          /\ [i \in 1..Len(tokens(attr.value).some) |-> AtomAsSlice(tokens(attr.value).some[i])]
                = << <<"b">>, <<"c">> >>

C4_Witness == C4_Scenario


\* what an accessor of the layout task gives on a cell holding v
Expected(acc, v) ==
    IF acc = "value_ref_forever" THEN Some(as_slice(v))
    ELSE IF acc = "value_tokens_forever"
         THEN (IF v.tag = "TokenListAttrValue" THEN Some(v.tokens) ELSE None)
    ELSE IF v.tag = "AtomAttrValue" THEN Some(v.atom) ELSE None

ValueAccessors == {"value_ref_forever", "value_tokens_forever", "value_atom_forever"}

\* no view is held while the script task is inside set_value
C5_NoViewDuringSetValue == views # {} => (stack = <<>> /\ borrow # -1)

\* C5 as stated: with the barrier, no view is held while the script task is
\* inside set_value, and what the layout task reads is the value of the last
\* set_value to have returned (or the initial value).
C5_ReadsLastCompleted ==
    hostBarrier =>
        /\ C5_NoViewDuringSetValue
        /\ (seen # None /\ seen.acc \in ValueAccessors) =>
              seen.res = Expected(seen.acc, last.completed)

\* C5 as amended: with the barrier, no view is held while the script task is
\* inside set_value, and what the layout task reads is the value of the last
\* assignment to the cell (or the initial value).
C5_ReadsLastAssigned ==
    hostBarrier =>
        /\ C5_NoViewDuringSetValue
        /\ (seen # None /\ seen.acc \in ValueAccessors) =>
              seen.res = Expected(seen.acc, last.swapped)

\* the layout task has read through a view after a call whose after_set_attr
\* wrote the attribute again
C5_Witness ==
    /\ hostBarrier
    /\ phase = "layout"
    /\ views # {}
    /\ seen # None
    /\ seen.acc = "value_ref_forever"
    /\ last.swapped # last.completed

\* C6: a set_value that reaches its borrow_mut while a Ref guard is
\* outstanding fails there; while a guard is outstanding the cell is neither
\* mutably borrowed nor changed.
C6_GuardAcrossMutationPanics ==
    /\ [](panicked => (stack # <<>> /\ Top.pc = "l195" /\ borrow > 0))
    /\ [][(borrow > 0) => (attr' = attr /\ borrow' # -1)]_vars
    /\ [][(~panicked /\ borrow > 0 /\ stack # <<>> /\ Top.pc = "l195") => panicked']_vars

C6_Witness ==
    /\ panicked
    /\ borrow > 0
    /\ Top.set_type = "ReplacedAttr"
    /\ as_slice(attr.value) = Top.old

C7_Returned(i, j) ==
    \E k \in (i + 1)..(j - 1) :
        /\ trace[k].ev = "return"
        /\ trace[k].d = trace[i].d
        /\ \E m \in (i + 1)..(k - 1) : trace[m].ev = "swap" /\ trace[m].d = trace[i].d

\* C7: a set_value called from a hook runs inside that hook: every call but
\* the innermost is waiting in one of its hooks, so at most one call is
\* between borrow_mut and the end of the assignment; the cell is mutably
\* borrowed only there, never while a hook runs; and once the outer call goes
\* on, every inner call has assigned and returned.
C7_ReentrantCallsNest ==
    /\ \A i \in 1..Len(stack) : i < Len(stack) => InHook(stack[i])
    /\ Cardinality({i \in 1..Len(stack) : stack[i].pc = "l195_assign"}) <= 1
    /\ borrow = -1 <=> (stack # <<>> /\ Top.pc = "l195_assign")
    /\ \A i \in 1..Len(trace), j \in 1..Len(trace) :
          (i < j /\ trace[i].ev = "call" /\ trace[j].d < trace[i].d) => C7_Returned(i, j)

\* the outer call assigns after the call made by its before_remove_attr returned
C7_Witness ==
    /\ Len(stack) = 1
    /\ Top.nested.before_remove_attr = 1
    /\ Top.pc = "l195_assign"

C8_Expected ==
    IF NullNamespace
    THEN <<"parse_attribute", "before_remove_attr", "swap", "after_set_attr">>
    ELSE <<"parse_attribute", "swap">>

C8_FromScript(f) == f.entry \in {"SetValue", "SetTextContent"}

\* C8: SetValue and SetTextContent call the owner's parse_attribute once,
\* before any hook and before the cell is replaced, and then run set_value
\* with ReplacedAttr on the parser's result: parse_attribute,
\* before_remove_attr, swap, after_set_attr on a null-namespace attribute.
C8_SetValueParsesFirst ==
    /\ \A f \in Frames : C8_FromScript(f) =>
          /\ IsPrefix(f.events, C8_Expected)
          /\ f.pc = "l140" => (f.events = <<>> /\ as_slice(attr.value) = f.old)
          /\ f.pc # "l140" =>
                /\ f.events # <<>>
                /\ f.set_type = "ReplacedAttr"
                /\ f.value = parse_attribute(attr.namespace, attr.local_name, f.text)
    /\ (ret # None /\ C8_FromScript(ret)) =>
          /\ ret.events = C8_Expected
          /\ ret.set_type = "ReplacedAttr"
          /\ ret.value = parse_attribute(attr.namespace, attr.local_name, ret.text)

C8_Witness ==
    /\ NullNamespace
    /\ stack = <<>>
    /\ ret # None
    /\ ret.entry = "SetTextContent"
    /\ ret.nested = [before_remove_attr |-> 0, after_set_attr |-> 0]

----------------------------------------------------------------------------
(* Properties of the value model *)

\* C9: the value any constructor builds from a text reads back as that text,
\* before and after it has been read; so from_tokenlist(t) reads back as t
\* with its duplicates, order and whitespace.
C9_TextRoundTrip ==
    built # None =>
        /\ as_slice(built.val) = arg.text
        /\ built.text # None => built.text.some = arg.text

C9_Witness ==
    /\ built # None
    /\ built.ctor = "from_tokenlist"
    /\ built.text # None
    /\ arg.text = <<" ", "a", "\n">>

IsSpace(t, i) == t[i] \in {" ", "\t", "\n", "\f", "\r"}

Runs(t) ==
    {r \in (1..Len(t)) \X (1..Len(t)) :
        /\ r[1] <= r[2]
        /\ \A i \in r[1]..r[2] : ~IsSpace(t, i)
        /\ r[1] = 1 \/ IsSpace(t, r[1] - 1)
        /\ r[2] = Len(t) \/ IsSpace(t, r[2] + 1)}

RunIndex(t, r) == Cardinality({q \in Runs(t) : q[1] <= r[1]})

C10_TokensAre(t, toks) ==
    /\ Len(toks) = Cardinality(Runs(t))
    /\ \A r \in Runs(t) : AtomAsSlice(toks[RunIndex(t, r)]) = SubSeq(t, r[1], r[2])
    /\ \A k \in 1..Len(toks) : AtomAsSlice(toks[k]) # <<>>

\* C10: the tokens of from_tokenlist(t) are the maximal runs of characters
\* of t that are not HTML whitespace, left to right, duplicates kept, none
\* empty; there are none when t is empty or all whitespace.
C10_TokensAreRuns ==
    (built # None /\ built.ctor = "from_tokenlist") =>
        /\ tokens(built.val) # None
        /\ C10_TokensAre(arg.text, tokens(built.val).some)
        /\ built.toks # None => built.toks.some = tokens(built.val)

C10_Witness ==
    /\ built # None
    /\ built.ctor = "from_tokenlist"
    /\ built.toks # None
    /\ arg.text = <<"a", " ", "a">>
    /\ Len(built.toks.some.some) = 2


\* a text that is a base-10 numeral: one or more decimal digits
C11_IsNumeral(t) ==
    /\ t # <<>>
    /\ \A i \in 1..Len(t) : t[i] \in {"0", "1", "2", "3", "4", "5", "6", "7", "8", "9"}

RECURSIVE C11_StripZeros(_)
C11_StripZeros(t) ==
    IF t = <<>> \/ t[1] # "0" THEN t ELSE C11_StripZeros(Tail(t))

\* the number a numeral of at most five digits denotes
RECURSIVE C11_Small(_)
C11_Small(t) ==
    IF t = <<>> THEN 0
    ELSE 10 * C11_Small(SubSeq(t, 1, Len(t) - 1))
         + (CHOOSE n \in 0..9 : Digits[n + 1] = t[Len(t)])

\* a numeral without leading zeros as high * 10^5 + low
C11_High(s) == IF Len(s) > 5 THEN C11_Small(SubSeq(s, 1, Len(s) - 5)) ELSE 0

C11_Low(s) == IF Len(s) > 5 THEN C11_Small(SubSeq(s, Len(s) - 4, Len(s))) ELSE C11_Small(s)

\* the numeral denotes a number of at most 2^32 - 1 = 42949 * 10^5 + 67295
C11_FitsU32(t) ==
    LET s == C11_StripZeros(t)
    IN  /\ Len(s) <= 10
        /\ \/ C11_High(s) < 42949
           \/ C11_High(s) = 42949 /\ C11_Low(s) <= 67295

\* its two 16-bit limbs: 10^5 = 2^16 + 34464
C11_Limbs(t) ==
    LET s == C11_StripZeros(t)
        rest == C11_High(s) * 34464 + C11_Low(s)
    IN  [hi |-> C11_High(s) + (rest \div 65536), lo |-> rest % 65536]

\* C11: from_u32(t, d) keeps t as its text; its number is the number t
\* denotes when t is a base-10 numeral of at most 2^32 - 1, and d otherwise
\* (not a numeral, empty, signed, or too large); nothing fails.  "abc" with
\* default 0 gives text "abc" and number 0.
C11_ParsedOrDefault ==
    (built # None /\ built.ctor = "from_u32") =>
        /\ built.val.tag = "UIntAttrValue"
        /\ as_slice(built.val) = arg.text
        /\ built.val.num =
              (IF C11_IsNumeral(arg.text) /\ C11_FitsU32(arg.text)
               THEN C11_Limbs(arg.text) ELSE arg.default)
        /\ (arg.text = <<"a", "b", "c">> /\ arg.default = [hi |-> 0, lo |-> 0]) =>
              built.val.num = [hi |-> 0, lo |-> 0]

\* a text one past the largest u32 has been built with a default other than 0
C11_Witness ==
    /\ built # None
    /\ built.ctor = "from_u32"
    /\ built.text # None
    /\ arg.text = <<"4", "2", "9", "4", "9", "6", "7", "2", "9", "6">>
    /\ arg.default = [hi |-> 0, lo |-> 5]
    /\ built.val.num = [hi |-> 0, lo |-> 5]


\* C12: tokens() returns a sequence exactly for the TokenList variant, and
\* then the stored tokens, in order; a list with no tokens is still returned,
\* as the empty sequence.  The Plain, UInt and Atom variants return none.
C12_TokensIffTokenList ==
    (built # None /\ built.toks # None) =>
        /\ (built.toks.some # None) <=> (built.val.tag = "TokenListAttrValue")
        /\ (built.val.tag = "TokenListAttrValue") <=> (built.ctor = "from_tokenlist")
        /\ built.ctor = "from_tokenlist" =>
              built.toks.some = Some(built.val.tokens)

\* tokens() has been read from a token list built from a text of spaces only
C12_Witness ==
    /\ built # None
    /\ built.ctor = "from_tokenlist"
    /\ arg.text = <<" ", "\n">>
    /\ built.toks = Some(Some(<<>>))


C13_Occurs(f, ev) == \E i \in 1..Len(f.events) : f.events[i] = ev

\* C13: get_namespace_uri is absent exactly when the namespace is the empty
\* one and is the namespace's text otherwise, never the empty text; and a
\* set_value calls after_set_attr exactly when get_namespace_uri is absent.
C13_NamespaceUriAbsentIffHooks ==
    /\ (got # None /\ got.op = "GetNamespaceURI") =>
          /\ (got.res = None) <=> (attr.namespace = ns_empty)
          /\ got.res # Some(<<>>)
          /\ got.res = (IF attr.name = AtomFromSlice(txt_xlink_href)
                        THEN Some(txt_ns_xlink) ELSE None)
    /\ ret # None =>
          (C13_Occurs(ret, "after_set_attr") <=> (GetNamespaceURI(attr) = None))
    /\ \A f \in Frames :
          C13_Occurs(f, "after_set_attr") => GetNamespaceURI(attr) = None

\* get_namespace_uri read as absent after a set_value that called after_set_attr
C13_Witness ==
    /\ got = Got("GetNamespaceURI", None)
    /\ ret # None
    /\ C13_Occurs(ret, "after_set_attr")

\* a value's derived form is what its constructor derives from its text
C14_Consistent(v) ==
    /\ v.tag = "TokenListAttrValue" =>
          /\ v = from_tokenlist(v.str)
          /\ C10_TokensAre(v.str, v.tokens)
    /\ v.tag = "UIntAttrValue" =>
          /\ \E d \in Defaults : v = from_u32(v.str, d)
          /\ (C11_IsNumeral(v.str) /\ C11_FitsU32(v.str)) => v.num = C11_Limbs(v.str)

\* C14: whatever calls the script task has made, the value in the cell is
\* consistent with its own text: a token list holds the split of its text, an
\* unsigned integer the number its text parses to or the default; and the
\* cell only ever holds a value some call assigned as a whole, never a text
\* and a derived form that arrived separately.
C14_CellConsistentWithText ==
    /\ C14_Consistent(attr.value)
    /\ attr.value = last.swapped
    /\ \A f \in Frames : f.pc # "l140" => C14_Consistent(f.value)

\* SetValue has replaced the token list of a class attribute and returned
C14_Witness ==
    /\ stack = <<>>
    /\ ret # None
    /\ ret.entry = "SetValue"
    /\ ret.old = txt_a__b
    /\ attr.value = TokenListAttrValue(txt_b_c, <<AtomFromSlice(<<"b">>), AtomFromSlice(<<"c">>)>>)


\* what the owning thread reads where the layout task uses accessor acc
C15_OwnerRead(acc) ==
    IF acc = "value_ref_forever" THEN Some(Value(attr))
    ELSE IF acc = "value_tokens_forever" THEN tokens(attr.value)
    ELSE IF acc = "value_atom_forever"
         THEN (IF attr.value.tag = "AtomAttrValue" THEN Some(attr.value.atom) ELSE None)
    ELSE Some(local_name(attr))

\* C15: while no set_value is in progress, what the layout task gets agrees
\* with the owning thread's read: value_ref_forever is the text of value(),
\* value_tokens_forever is tokens() of value() (present only for a token
\* list), value_atom_forever is present exactly for the Atom variant and is
\* then its atom, and local_name_atom_forever is local_name().
C15_ViewAgreesWithOwnerRead ==
    (stack = <<>> /\ borrow # -1) =>
        /\ \A v \in views : Some(v.target) = C15_OwnerRead(v.acc)
        /\ (seen # None /\ seen.acc \in ValueAccessors) => seen.res = C15_OwnerRead(seen.acc)
        /\ (seen # None /\ seen.acc = "value_atom_forever") =>
              ((seen.res # None) <=> (attr.value.tag = "AtomAttrValue"))
        /\ (seen # None /\ seen.acc = "local_name_atom_forever") =>
              Some(seen.res) = C15_OwnerRead(seen.acc)

\* value_atom_forever has given the atom set_value stored, while the layout
\* task holds a view of the same value's text
C15_Witness ==
    /\ stack = <<>>
    /\ seen = Observation("value_atom_forever", Some(AtomFromSlice(txt_7)))
    /\ attr.value = from_atomic(txt_7)
    /\ \E v \in views : v.acc = "value_ref_forever" /\ v.target = txt_7


\* the layout task takes a view in this step
C16_ViewTaken == \E v \in views' \ views : ~v.dangling

\* the cell's content is replaced in this step
C16_CellReplaced == borrow = -1 /\ borrow' # -1

\* the next step of a set_value in progress
C16_SetValueStep ==
    \/ set_value_191
    \/ before_remove_attr_return
    \/ set_value_195_borrow_mut
    \/ set_value_195_assign
    \/ set_value_197
    \/ after_set_attr_return

\* C16: the accessors of the layout task take no guard: taking a view leaves
\* the cell's borrow state and the script task as they were, and may happen
\* while the cell is being written; a view held never makes set_value fail
\* (it fails only under a Ref guard) or wait (its next step stays enabled);
\* and when set_value replaces the cell every view held refers to a replaced
\* value from then on, while a view not so marked still shows the cell's content.
C16_ViewsTakeNoGuard ==
    /\ [](panicked => borrow > 0)
    /\ []((stack # <<>> /\ ~panicked) => ENABLED C16_SetValueStep)
    /\ []((borrow # -1) =>
             \A v \in views : ~v.dangling => Some(v.target) = Expected(v.acc, attr.value))
    /\ [][C16_ViewTaken =>
             (borrow' = borrow /\ attr' = attr /\ stack' = stack /\ panicked' = panicked)]_vars
    /\ [][C16_CellReplaced => \A v \in views' : v.dangling]_vars
    /\ [][(views # {} /\ borrow = 0 /\ stack # <<>> /\ Top.pc = "l195"
           /\ views' = views /\ seen' = seen)
             => (borrow' = -1 /\ ~panicked')]_vars

\* no barrier: set_value has replaced a token list, and returned, while the
\* layout task holds a view of its tokens, and no Ref guard was ever in the way
C16_Witness ==
    /\ ~hostBarrier
    /\ ~panicked
    /\ borrow = 0
    /\ ret # None
    /\ \E v \in views :
          /\ v.acc = "value_tokens_forever"
          /\ v.dangling
          /\ Some(v.target) # Expected(v.acc, attr.value)


\* the fields of the attribute other than the value cell
C17_Identity(a) ==
    [local_name |-> a.local_name, name |-> a.name, namespace |-> a.namespace,
     prefix |-> a.prefix, owner |-> a.owner]

\* a read returns in this step: a getter, a Ref guard taken, a view taken or
\* a result handed to the layout task
C17_ReadStep ==
    \/ got' # None /\ got' # got
    \/ borrow >= 0 /\ borrow' > borrow
    \/ \E v \in views' \ views : ~v.dangling
    \/ seen' # None /\ seen' # seen

\* C17: set_value changes only the value cell: local_name, name, namespace,
\* prefix and owner stay as they were at creation, and the value changes only
\* in the assignment of a set_value; a read (the getters, value(), the
\* accessors of the layout task) changes nothing of the attribute and calls
\* no hook.
C17_OnlyTheCellChanges ==
    /\ [](C17_Identity(attr) \in {[local_name |-> id.local_name, name |-> id.name,
                                   namespace |-> id.namespace, prefix |-> id.prefix,
                                   owner |-> Owner] : id \in Identities})
    /\ [][C17_Identity(attr') = C17_Identity(attr)]_vars
    /\ [][attr' # attr => (stack # <<>> /\ Top.pc = "l195_assign" /\ borrow = -1)]_vars
    /\ [][C17_ReadStep => (attr' = attr /\ trace' = trace /\ stack' = stack /\ ret' = ret)]_vars

\* GetPrefix has read the prefix given at creation after a SetValue replaced
\* the value of the namespaced attribute
C17_Witness ==
    /\ got = Got("GetPrefix", Some(txt_xlink))
    /\ ret # None
    /\ ret.entry = "SetValue"
    /\ as_slice(attr.value) = ret.text
    /\ ret.text # ret.old


\* the hooks a set_value has called by the time it reaches its borrow_mut
C18_HooksBeforeFailure(f) ==
    IF f.set_type = "ReplacedAttr" /\ NullNamespace
    THEN <<"before_remove_attr">>
    ELSE <<>>

\* C18 as stated: a set_value that fails at its borrow_mut because a Ref
\* guard is outstanding has, for ReplacedAttr on a null-namespace attribute,
\* called before_remove_attr and not after_set_attr, and the cell still holds
\* the value it held when the call began; otherwise it has called no hook.
C18_FailureLeavesOldValue ==
    panicked =>
        /\ SelectSeq(Top.events, IsProtocolEvent) = C18_HooksBeforeFailure(Top)
        /\ Top.sawAfter = None
        /\ as_slice(attr.value) = Top.old

\* C18 as amended: a set_value that fails at its borrow_mut because a Ref
\* guard is outstanding has, for ReplacedAttr on a null-namespace attribute,
\* already called before_remove_attr; it has not written the cell, which
\* holds the value it held when the call began unless before_remove_attr
\* itself set the attribute; and after_set_attr is not called for it, then
\* or later.  For FirstSetAttr, or in a namespace, the failed call has
\* called no hook.
C18_FailureAfterBeforeRemove ==
    /\ [](panicked =>
            /\ borrow > 0
            /\ Top.pc = "l195"
            /\ SelectSeq(Top.events, IsProtocolEvent) = C18_HooksBeforeFailure(Top)
            /\ Top.sawAfter = None
            /\ (Top.set_type = "ReplacedAttr" /\ NullNamespace) => Top.sawBefore # None
            /\ attr.value = last.swapped
            /\ Top.nested.before_remove_attr = 0 =>
                  /\ as_slice(attr.value) = Top.old
                  /\ Top.sawBefore \in {None, Some(as_slice(attr.value))})
    /\ [][panicked => (panicked' /\ attr' = attr /\ stack' = stack /\ trace' = trace)]_vars

\* an outermost set_value(ReplacedAttr, v) has failed after its
\* before_remove_attr took a guard and returned; v is not in the cell
C18_Witness ==
    /\ panicked
    /\ Len(stack) = 1
    /\ NullNamespace
    /\ Top.set_type = "ReplacedAttr"
    /\ Top.events = <<"before_remove_attr">>
    /\ Top.sawBefore = Some(Top.old)
    /\ as_slice(attr.value) = Top.old
    /\ as_slice(Top.value) # Top.old


\* positions in the trace of an outermost call: its own hook calls and its
\* own assignment are the events of depth 1
C19_OuterAt(ev) == {i \in 1..Len(trace) : trace[i].ev = ev /\ trace[i].d = 1}

C19_Inner == {i \in 1..Len(trace) : trace[i].d > 1}

C19_Swaps == {i \in 1..Len(trace) : trace[i].ev = "swap"}

C19_LastSwap == CHOOSE i \in C19_Swaps : \A j \in C19_Swaps : j <= i

\* an outermost set_value(ReplacedAttr, v) on a null-namespace attribute has returned
C19_OuterReturned ==
    /\ stack = <<>>
    /\ ret # None
    /\ NullNamespace
    /\ ret.set_type = "ReplacedAttr"

\* C19: on a null-namespace attribute, when before_remove_attr, called by
\* set_value(ReplacedAttr, v), calls set_value on the same attribute, the
\* inner call writes the cell first and the outer assignment overwrites it, so
\* that the cell holds v when the outer call returns; when after_set_attr
\* calls set_value(k, w), the inner assignment is the last one and the cell
\* holds w when the outer call returns; and everything an inner call does lies
\* between the outer before_remove_attr and the outer call's return.
C19_ReentrantOutcome ==
    C19_OuterReturned =>
        /\ trace[Len(trace)] = [ev |-> "return", d |-> 1, val |-> None]
        /\ Cardinality(C19_OuterAt("before_remove_attr")) = 1
        /\ Cardinality(C19_OuterAt("swap")) = 1
        /\ Cardinality(C19_OuterAt("after_set_attr")) = 1
        /\ \A i \in C19_Inner :
              /\ \E b \in C19_OuterAt("before_remove_attr") : b < i
              /\ i < Len(trace)
        /\ (ret.nested.before_remove_attr = 0 /\ ret.nested.after_set_attr = 0) <=> (C19_Inner = {})
        /\ ret.nested.before_remove_attr >= 1 =>
              \E i \in C19_Swaps : \E b \in C19_OuterAt("before_remove_attr"), o \in C19_OuterAt("swap") :
                  trace[i].d > 1 /\ b < i /\ i < o
        /\ (ret.nested.before_remove_attr >= 1 /\ ret.nested.after_set_attr = 0) =>
              /\ C19_LastSwap \in C19_OuterAt("swap")
              /\ attr.value = ret.value
        /\ ret.nested.after_set_attr >= 1 =>
              /\ trace[C19_LastSwap].d > 1
              /\ \E h \in C19_OuterAt("after_set_attr") : h < C19_LastSwap
              /\ trace[C19_LastSwap].val = as_slice(attr.value)
              /\ attr.value = last.swapped
              /\ \E v \in ArgValues : attr.value = v

\* the outer call has returned after its after_set_attr set the attribute to
\* another text, which the cell now holds
C19_Witness ==
    /\ C19_OuterReturned
    /\ ret.nested = [before_remove_attr |-> 0, after_set_attr |-> 1]
    /\ as_slice(attr.value) # as_slice(ret.value)
    /\ as_slice(attr.value) # ret.old

====
